---- MODULE Spec2Model ----
(***************************************************************************)
(* Model of the Marseille apartment investment simulator:                  *)
(*   src/marseille_dashboard.py  (deterministic variant + Dash callback)   *)
(*   src/marseille_sym.py        (stochastic variant, command line)        *)
(*                                                                         *)
(* Numbers.  The program computes with Python floats.  The model keeps a   *)
(* float as an integer number of money units (or, for a rate, of           *)
(* 1/RateDen), rounded to the nearest unit after every multiplication and  *)
(* division, with a finite range: a magnitude above FloatMax is an         *)
(* infinity, and inf - inf or inf * 0 is NaN, as in IEEE arithmetic.       *)
(***************************************************************************)
EXTENDS Integers, Sequences, FiniteSets, TLC

\* ---------------------------------------------------------------- bounds
RateDen == 10
FloatMax == 4000
MaxRateNum == 10
MaxYears == 3
MaxTerm == 3
RngMod == 7

\* ------------------------------------------------------ program constants
MaxDays == 365
SeedValue == 42
DefaultTouristDays == 90

\* ------------------------------------------------------------ float model
PInf == FloatMax + 1
NInf == -(FloatMax + 1)
NaN == FloatMax + 2

IsNaN(x) == x = NaN
IsFinite(x) == x >= -FloatMax /\ x <= FloatMax

\* The float nearest to the exact value x: an infinity outside the range.
Fl(x) == IF x > FloatMax THEN PInf ELSE IF x < -FloatMax THEN NInf ELSE x

\* n / d rounded to the nearest integer (d > 0).
RoundDiv(n, d) == (2 * n + d) \div (2 * d)

FNeg(a) == IF IsNaN(a) THEN NaN ELSE -a

FAdd(a, b) ==
    IF IsNaN(a) \/ IsNaN(b) THEN NaN
    ELSE IF a = PInf THEN (IF b = NInf THEN NaN ELSE PInf)
    ELSE IF a = NInf THEN (IF b = PInf THEN NaN ELSE NInf)
    ELSE IF b = PInf \/ b = NInf THEN b
    ELSE Fl(a + b)

FSub(a, b) == FAdd(a, FNeg(b))

\* a * (n / d) for a float a and the finite factor n / d (d > 0).
FMulQ(a, n, d) ==
    IF IsNaN(a) THEN NaN
    ELSE IF a = PInf \/ a = NInf
         THEN (IF n = 0 THEN NaN ELSE IF n > 0 THEN a ELSE -a)
    ELSE Fl(RoundDiv(a * n, d))

\* a / t for a finite a and an integer t >= 1.
FDiv(a, t) == Fl(RoundDiv(a, t))

\* Comparisons: every comparison with NaN is false.
FGt(a, b) == ~IsNaN(a) /\ ~IsNaN(b) /\ a > b
FGe(a, b) == ~IsNaN(a) /\ ~IsNaN(b) /\ a >= b
FLt(a, b) == ~IsNaN(a) /\ ~IsNaN(b) /\ a < b

RECURSIVE Pow(_, _)
Pow(b, e) == IF e = 0 THEN 1 ELSE b * Pow(b, e - 1)

Sign(x) == IF x > 0 THEN 1 ELSE IF x < 0 THEN -1 ELSE 0

Abs(x) == IF x < 0 THEN -x ELSE x

\* ------------------------------------------------------ random generator
\* numpy's global generator: seeding fixes the state, every draw advances it.
Seed(s) == s % RngMod
NextRng(s) == (3 * s + 1) % RngMod
\* The standard normal draw made from state s, in {-1, 0, 1}.
StdNormal(s) == (NextRng(s) % 3) - 1

\* --------------------------------------------------- internal rate of return
\* npf.irr(values): the real rates r > -1 with NPV(r) = 0, the one closest to
\* zero; NaN when there is none; LinAlgError when a value is not finite.
\* NPV(k / RateDen) * ((RateDen + k) / RateDen)^N * RateDen^N, an integer of the
\* sign of NPV at the rate k / RateDen.
RECURSIVE NpvSum(_, _, _)
NpvSum(values, k, i) ==
    IF i > Len(values) THEN 0
    ELSE values[i] * Pow(RateDen + k, Len(values) - i) * Pow(RateDen, i - 1)
         + NpvSum(values, k, i + 1)

NpvSign(values, k) == Sign(NpvSum(values, k, 1))

MinRateNum == 1 - RateDen

RateGrid == MinRateNum..MaxRateNum

\* Sign of NPV as the rate grows without bound: that of the first non-zero flow.
RECURSIVE FirstSign(_, _)
FirstSign(values, i) ==
    IF i > Len(values) THEN 0
    ELSE IF values[i] # 0 THEN Sign(values[i]) ELSE FirstSign(values, i + 1)

\* Sign of NPV as the rate falls to -1: that of the last non-zero flow.
RECURSIVE LastSign(_, _)
LastSign(values, i) ==
    IF i < 1 THEN 0
    ELSE IF values[i] # 0 THEN Sign(values[i]) ELSE LastSign(values, i - 1)

\* The grid cells that hold a root: k stands for the rates in [k, k+1) / RateDen;
\* the last cell also holds every rate above the grid, the first every rate
\* between -1 and the grid.
IrrRoots(values) ==
    IF FirstSign(values, 1) = 0 THEN {}
    ELSE { k \in RateGrid :
            LET s == NpvSign(values, k) IN
            \/ s = 0
            \/ /\ k < MaxRateNum
               /\ NpvSign(values, k + 1) = -s
            \/ /\ k = MaxRateNum
               /\ FirstSign(values, 1) = -s
            \/ /\ k = MinRateNum
               /\ LastSign(values, Len(values)) = -s }

IrrRaises(values) == \E i \in 1..Len(values) : ~IsFinite(values[i])

IrrValue(values) ==
    LET roots == IrrRoots(values) IN
    IF roots = {} THEN NaN
    ELSE CHOOSE k \in roots :
            \A j \in roots : Abs(k) < Abs(j) \/ (Abs(k) = Abs(j) /\ k <= j)

\* ------------------------------------------------------------ parameters
\* The module-level parameter record (DEFAULT_PARAMS of the dashboard, PARAMS of
\* the command-line variant), in model units: money in units, rates in 1/RateDen.
DefaultParams ==
    [ simulation_years |-> 2, apartment_price |-> 200, loan_amount |-> 100,
      mortgage_term_years |-> 3, buying_costs_pct |-> 1, selling_costs_pct |-> 1,
      annual_fixed_costs |-> 20, tourist_rental_price_per_day |-> 1,
      friends_rental_price_per_day |-> 1, friends_rental_days_per_year |-> 15,
      family_rental_price_per_day |-> 1, family_rental_days_per_year |-> 10,
      avg_property_value_growth |-> 1, annual_costs_inflation |-> 1,
      base_mortgage_interest_rate |-> 1, interest_rate_volatility |-> 1,
      target_annual_return |-> 1 ]

\* The parameter sets a caller passes: the defaults with some fields replaced.
Years == 1..MaxYears
Terms == 1..MaxTerm
Loans == {0, 100, 300}
Targets == {-RateDen, 1, 5}
DaySamples == {0, 1, DefaultTouristDays, MaxDays}
\* A price whose value a few years of growth carry past FloatMax.
HugePrice == FloatMax - 500

ParamSets ==
    { [DefaultParams EXCEPT !.simulation_years = n, !.loan_amount = l,
                            !.mortgage_term_years = t,
                            !.target_annual_return = tg] :
        n \in Years, l \in Loans, t \in Terms, tg \in Targets }
    \cup
    { [DefaultParams EXCEPT !.simulation_years = n, !.apartment_price = HugePrice,
                            !.target_annual_return = tg] :
        n \in Years, tg \in Targets }

\* --------------------------------------------------------- run_simulation
\* The locals of one call of run_simulation, with the generator's state.
StartRun(p, s) ==
    LET initial_down_payment == FSub(p.apartment_price, p.loan_amount)
        buying_costs == FMulQ(p.apartment_price, p.buying_costs_pct, RateDen)
        total_initial_investment == FAdd(initial_down_payment, buying_costs)
    IN  [ year |-> 1,
          remaining_loan |-> p.loan_amount,
          current_property_value |-> p.apartment_price,
          annual_principal_payment |-> FDiv(p.loan_amount, p.mortgage_term_years),
          cash_flows |-> << FNeg(total_initial_investment) >>,
          simulation_data |-> << >>,
          rng |-> s ]

\* A faulty loop bound: the loop stops one year early.
LoopStopsEarly(p, f) == f.year < p.simulation_years

\* for year in range(1, simulation_years + 1)
LoopContinues(p, f) == f.year <= p.simulation_years

\* A faulty rate: the deterministic variant draws the shock too.
InterestRateAlwaysShocked(v, p, s) ==
    p.base_mortgage_interest_rate + p.interest_rate_volatility * StdNormal(s)

\* The interest rate of the year: the base rate, plus a normal shock in the
\* stochastic variant.
InterestRate(v, p, s) ==
    IF v = "sym"
    THEN p.base_mortgage_interest_rate + p.interest_rate_volatility * StdNormal(s)
    ELSE p.base_mortgage_interest_rate

RngAfterYear(v, s) == IF v = "sym" THEN NextRng(s) ELSE s

\* A faulty revenue: the tourist revenue enters with the wrong sign.
RentalRevenueTouristNegated(v, p, d) ==
    FSub(Fl(p.friends_rental_days_per_year * p.friends_rental_price_per_day),
         Fl(d * p.tourist_rental_price_per_day))

RentalRevenue(v, p, d) ==
    LET tourist_revenue == Fl(d * p.tourist_rental_price_per_day)
        friends_revenue ==
            Fl(p.friends_rental_days_per_year * p.friends_rental_price_per_day)
        family_revenue ==
            Fl(p.family_rental_days_per_year * p.family_rental_price_per_day)
    IN  IF v = "sym" THEN FAdd(tourist_revenue, friends_revenue)
        ELSE FAdd(FAdd(tourist_revenue, friends_revenue), family_revenue)

\* A faulty payment: the annual amount is paid whatever is left of the loan.
PrincipalPaidUncapped(remaining, annual) == annual

\* principal_paid: the annual amount, or what is left of the loan when that is
\* not more.
PrincipalPaid(remaining, annual) ==
    IF FGt(remaining, annual) THEN annual ELSE remaining

\* One iteration of the simulation loop.
LoopBody(v, p, d, f) ==
    LET current_interest_rate == InterestRate(v, p, f.rng)
        current_property_value ==
            FMulQ(f.current_property_value,
                  RateDen + p.avg_property_value_growth, RateDen)
        current_fixed_costs ==
            FMulQ(p.annual_fixed_costs,
                  Pow(RateDen + p.annual_costs_inflation, f.year),
                  Pow(RateDen, f.year))
        total_rental_revenue == RentalRevenue(v, p, d)
        interest_paid == FMulQ(f.remaining_loan, current_interest_rate, RateDen)
        principal_paid ==
            PrincipalPaid(f.remaining_loan, f.annual_principal_payment)
        net_cash_flow ==
            FSub(FSub(FSub(total_rental_revenue, interest_paid), principal_paid),
                 current_fixed_costs)
        remaining_loan == FSub(f.remaining_loan, principal_paid)
        current_equity == FSub(current_property_value, remaining_loan)
        row == [ Year |-> f.year,
                 PropertyValue |-> current_property_value,
                 LoanBalance |-> remaining_loan,
                 Equity |-> current_equity,
                 RentalRevenue |-> total_rental_revenue,
                 InterestRate |-> current_interest_rate,
                 InterestPaid |-> interest_paid,
                 PrincipalPaid |-> principal_paid,
                 FixedCosts |-> current_fixed_costs,
                 NetCashFlow |-> net_cash_flow ]
    IN  [ year |-> f.year + 1,
          remaining_loan |-> remaining_loan,
          current_property_value |-> current_property_value,
          annual_principal_payment |-> f.annual_principal_payment,
          cash_flows |-> Append(f.cash_flows, net_cash_flow),
          simulation_data |-> Append(f.simulation_data, row),
          rng |-> RngAfterYear(v, f.rng) ]

\* A faulty sale: the selling costs are not deducted.
FinalCashInflowNoSellingCosts(p, f) ==
    FSub(f.current_property_value, f.remaining_loan)

\* The net proceeds of the sale after the last year.
FinalCashInflow(p, f) ==
    LET selling_costs == FMulQ(f.current_property_value, p.selling_costs_pct, RateDen)
    IN  FSub(FSub(f.current_property_value, selling_costs), f.remaining_loan)

\* cash_flows[-1] += final_cash_inflow
AddTerminalValue(p, f) ==
    [ f EXCEPT !.cash_flows[Len(f.cash_flows)] = FAdd(@, FinalCashInflow(p, f)) ]

\* What the return computation ends with: "value", "nan" (npf.irr finds no real
\* solution) or "error" (npf.irr raises).
IrrOutcome(values) ==
    IF IrrRaises(values) THEN "error"
    ELSE IF IsNaN(IrrValue(values)) THEN "nan" ELSE "value"

\* The sentinel of the dashboard's except clause, -1.0.
LossSentinel == -RateDen

\* Whether an exception of npf.irr leaves run_simulation: the dashboard wraps the
\* call in try/except, the command-line variant does not.
IrrPropagates(v, values) == v = "sym" /\ IrrRaises(values)

AnnualizedReturn(v, values) ==
    IF IrrRaises(values) THEN LossSentinel ELSE IrrValue(values)

\* The whole call as a function of its inputs and the generator's state.
RECURSIVE RunLoop(_, _, _, _)
RunLoop(v, p, d, f) ==
    IF LoopContinues(p, f) THEN RunLoop(v, p, d, LoopBody(v, p, d, f)) ELSE f

RunFrame(v, p, d, s) == AddTerminalValue(p, RunLoop(v, p, d, StartRun(p, s)))

\* ------------------------------------------------------- update_dashboard
\* A callback input: None, or << v >> for the value v.
None == << >>
Some(v) == << v >>

\* prop_growth / 100.0 and int_rate / 100.0: a percentage as a rate.
PercentToRate(x) == RoundDiv(x * RateDen, 100)

Override(p, key, input) == IF input # None THEN [p EXCEPT ![key] = input[1]] ELSE p

OverridePercent(p, key, input) ==
    IF input # None THEN [p EXCEPT ![key] = PercentToRate(input[1])] ELSE p

\* params_for_run: a copy of the defaults with every given input written in.
ParamsForRun(defaults, in) ==
    LET p1 == Override(defaults, "apartment_price", in.apt_price)
        p2 == Override(p1, "loan_amount", in.loan_amt)
        p3 == OverridePercent(p2, "avg_property_value_growth", in.prop_growth)
        p4 == OverridePercent(p3, "base_mortgage_interest_rate", in.int_rate)
        p5 == Override(p4, "tourist_rental_price_per_day", in.tourist_price)
        p6 == Override(p5, "friends_rental_price_per_day", in.friends_price)
        p7 == Override(p6, "annual_fixed_costs", in.fixed_costs)
        p8 == Override(p7, "friends_rental_days_per_year", in.friends_days)
        p9 == Override(p8, "family_rental_days_per_year", in.family_days)
    IN  Override(p9, "family_rental_price_per_day", in.family_price)

\* sim_tourist_days = tourist_days if tourist_days is not None else 0
SimTouristDays(in) == IF in.tourist_days # None THEN in.tourist_days[1] ELSE 0

\* The inputs a browser sends: each field cleared (None) or holding a number.
InputSets ==
    [ tourist_days : {None, Some(30)},
      friends_days : {None, Some(DefaultParams.friends_rental_days_per_year)},
      family_days : {None, Some(DefaultParams.family_rental_days_per_year)},
      apt_price : {None, Some(250)},
      loan_amt : {None, Some(DefaultParams.loan_amount)},
      prop_growth : {None, Some(10)},
      int_rate : {None, Some(10)},
      tourist_price : {None, Some(DefaultParams.tourist_rental_price_per_day)},
      friends_price : {None, Some(DefaultParams.friends_rental_price_per_day)},
      family_price : {None, Some(DefaultParams.family_rental_price_per_day)},
      fixed_costs : {None, Some(30)} ]

NoInputs ==
    [ tourist_days |-> None, friends_days |-> None, family_days |-> None,
      apt_price |-> None, loan_amt |-> None, prop_growth |-> None,
      int_rate |-> None, tourist_price |-> None, friends_price |-> None,
      family_price |-> None, fixed_costs |-> None ]

\* ------------------------------------------------------------------ state
VARIABLES
    variant,                  \* "dashboard" or "sym": the file that is running
    DEFAULT_PARAMS,           \* the module-level record (PARAMS in "sym")
    rng,                      \* state of numpy's global random generator
    pc,                       \* where the innermost call stands
    stack,                    \* the calls in progress, outermost first
    inputs,                   \* update_dashboard's arguments
    params,                   \* the params mapping passed to the engine
    tourist_rental_days,      \* run_simulation's second argument
    year, remaining_loan, current_property_value, annual_principal_payment,
    cash_flows, simulation_data,          \* run_simulation's locals
    annualized_return,        \* run_simulation's first result
    outcome,                  \* how the return computation ended
    days, breakeven,          \* find_breakeven_days' loop variable and result
    irr, df                   \* update_dashboard's copy of the first run's results

vars == << variant, DEFAULT_PARAMS, rng, pc, stack, inputs, params,
           tourist_rental_days, year, remaining_loan, current_property_value,
           annual_principal_payment, cash_flows, simulation_data,
           annualized_return, outcome, days, breakeven, irr, df >>

runVars == << year, remaining_loan, current_property_value,
              annual_principal_payment, cash_flows, simulation_data >>

RngStates == 0..(RngMod - 1)

Frame ==
    [ year |-> year, remaining_loan |-> remaining_loan,
      current_property_value |-> current_property_value,
      annual_principal_payment |-> annual_principal_payment,
      cash_flows |-> cash_flows, simulation_data |-> simulation_data,
      rng |-> rng ]

SetFrame(f) ==
    /\ year' = f.year
    /\ remaining_loan' = f.remaining_loan
    /\ current_property_value' = f.current_property_value
    /\ annual_principal_payment' = f.annual_principal_payment
    /\ cash_flows' = f.cash_flows
    /\ simulation_data' = f.simulation_data
    /\ rng' = f.rng

\* No call in progress: every local is gone.
NoCall ==
    /\ pc = "idle"
    /\ stack = << >>
    /\ inputs = NoInputs
    /\ params = DefaultParams
    /\ tourist_rental_days = 0
    /\ year = 0
    /\ remaining_loan = 0
    /\ current_property_value = 0
    /\ annual_principal_payment = 0
    /\ cash_flows = << >>
    /\ simulation_data = << >>
    /\ annualized_return = 0
    /\ outcome = "none"
    /\ days = 0
    /\ breakeven = None
    /\ irr = 0
    /\ df = << >>

Init ==
    /\ variant \in {"dashboard", "sym"}
    /\ DEFAULT_PARAMS = DefaultParams
    /\ rng \in (IF variant = "sym" THEN RngStates ELSE {0})
    /\ NoCall

\* run_simulation(p, d) is entered: its initial calculations.
EnterRun(p, d, s) ==
    /\ params' = p
    /\ tourist_rental_days' = d
    /\ SetFrame(StartRun(p, s))
    /\ annualized_return' = 0
    /\ outcome' = "none"
    /\ pc' = "run_loop"

\* np.random.seed(42) of the command-line variant's main program.
SeedRandom ==
    /\ pc = "idle"
    /\ variant = "sym"
    /\ rng' = Seed(SeedValue)
    /\ UNCHANGED << variant, DEFAULT_PARAMS, pc, stack, inputs, params,
                    tourist_rental_days, runVars, annualized_return, outcome,
                    days, breakeven, irr, df >>

\* A caller calls run_simulation(p, d).
CallRunSimulation(p, d) ==
    /\ pc = "idle"
    /\ EnterRun(p, d, rng)
    /\ stack' = << "run" >>
    /\ UNCHANGED << variant, DEFAULT_PARAMS, inputs, days, breakeven, irr, df >>

\* One year of the simulation loop.
YearStep ==
    /\ pc = "run_loop"
    /\ LoopContinues(params, Frame)
    /\ SetFrame(LoopBody(variant, params, tourist_rental_days, Frame))
    /\ UNCHANGED << variant, DEFAULT_PARAMS, pc, stack, inputs, params,
                    tourist_rental_days, annualized_return, outcome, days,
                    breakeven, irr, df >>

\* After the loop: the terminal value is added to the last cash flow.
TerminalStep ==
    /\ pc = "run_loop"
    /\ ~LoopContinues(params, Frame)
    /\ SetFrame(AddTerminalValue(params, Frame))
    /\ pc' = "run_irr"
    /\ UNCHANGED << variant, DEFAULT_PARAMS, stack, inputs, params,
                    tourist_rental_days, annualized_return, outcome, days,
                    breakeven, irr, df >>

\* npf.irr(cash_flows), and run_simulation returns.
ComputeReturn ==
    /\ pc = "run_irr"
    /\ ~IrrPropagates(variant, cash_flows)
    /\ annualized_return' = AnnualizedReturn(variant, cash_flows)
    /\ outcome' = IrrOutcome(cash_flows)
    /\ pc' = "run_done"
    /\ UNCHANGED << variant, DEFAULT_PARAMS, rng, stack, inputs, params,
                    tourist_rental_days, runVars, days, breakeven, irr, df >>

\* npf.irr raises and nothing catches it: every call in progress is left.
RaiseFromIrr ==
    /\ pc = "run_irr"
    /\ IrrPropagates(variant, cash_flows)
    /\ outcome' = "error"
    /\ pc' = "raised"
    /\ UNCHANGED << variant, DEFAULT_PARAMS, rng, stack, inputs, params,
                    tourist_rental_days, runVars, annualized_return, days,
                    breakeven, irr, df >>

\* ----------------------------------------------------- find_breakeven_days
\* A faulty scan: the generator is not seeded before a trial.
RngForTrialUnseeded(v, s) == s

\* The generator a trial of the scan starts from: the command-line variant
\* calls np.random.seed(42) before every trial.
RngForTrial(v, s) == IF v = "sym" THEN Seed(SeedValue) ELSE s

\* if irr >= params["target_annual_return"]
MeetsTarget(ret, p) == FGe(ret, p.target_annual_return)

\* for days in range(0, 366)
ScanContinues(d) == d <= MaxDays

Pop(st) == SubSeq(st, 1, Len(st) - 1)

\* A caller calls find_breakeven_days(p).
CallFindBreakevenDays(p) ==
    /\ pc = "idle"
    /\ params' = p
    /\ days' = 0
    /\ stack' = << "find" >>
    /\ pc' = "scan"
    /\ UNCHANGED << variant, DEFAULT_PARAMS, rng, inputs, tourist_rental_days,
                    runVars, annualized_return, outcome, breakeven, irr, df >>

\* The next trial of the scan: run_simulation(params, days).
FindTrial ==
    /\ pc = "scan"
    /\ ScanContinues(days)
    /\ EnterRun(params, days, RngForTrial(variant, rng))
    /\ stack' = Append(stack, "run")
    /\ UNCHANGED << variant, DEFAULT_PARAMS, inputs, days, breakeven, irr, df >>

\* The scan is over and no trial met the target: return -1.
FindNotFound ==
    /\ pc = "scan"
    /\ ~ScanContinues(days)
    /\ breakeven' = Some(-1)
    /\ pc' = "find_done"
    /\ UNCHANGED << variant, DEFAULT_PARAMS, rng, stack, inputs, params,
                    tourist_rental_days, runVars, annualized_return, outcome,
                    days, irr, df >>

\* The trial's return against the target: return days, or go on with days + 1.
FindCompare ==
    /\ pc = "run_done"
    /\ Len(stack) >= 2
    /\ stack[Len(stack) - 1] = "find"
    /\ stack' = Pop(stack)
    /\ IF MeetsTarget(annualized_return, params)
       THEN /\ breakeven' = Some(days)
            /\ pc' = "find_done"
            /\ days' = days
       ELSE /\ breakeven' = breakeven
            /\ pc' = "scan"
            /\ days' = days + 1
    /\ UNCHANGED << variant, DEFAULT_PARAMS, rng, inputs, params,
                    tourist_rental_days, runVars, annualized_return, outcome,
                    irr, df >>

\* ------------------------------------------------- update_dashboard, steps
\* A faulty callback: params_for_run is the module-level record itself, so the
\* overrides are written into it.
DefaultsAfterOverridesNoCopy(defaults, in) == ParamsForRun(defaults, in)

\* The module-level record after the callback's writes: params_for_run is
\* DEFAULT_PARAMS.copy(), so the writes do not reach the record.
DefaultsAfterOverrides(defaults, in) == defaults

\* The callback fires: params_for_run and sim_tourist_days are built.
CallUpdateDashboard(in) ==
    /\ pc = "idle"
    /\ variant = "dashboard"
    /\ inputs' = in
    /\ params' = ParamsForRun(DEFAULT_PARAMS, in)
    /\ DEFAULT_PARAMS' = DefaultsAfterOverrides(DEFAULT_PARAMS, in)
    /\ tourist_rental_days' = SimTouristDays(in)
    /\ stack' = << "update" >>
    /\ pc' = "update_built"
    /\ UNCHANGED << variant, rng, runVars, annualized_return,
                    outcome, days, breakeven, irr, df >>

\* irr, df = run_simulation(params_for_run, sim_tourist_days): the call.
UpdateCallRun ==
    /\ pc = "update_built"
    /\ EnterRun(params, tourist_rental_days, rng)
    /\ inputs' = NoInputs
    /\ stack' = << "update", "run" >>
    /\ UNCHANGED << variant, DEFAULT_PARAMS, days, breakeven, irr, df >>

\* ... its results, and breakeven_days = find_breakeven_days(params_for_run).
UpdateCallFind ==
    /\ pc = "run_done"
    /\ stack = << "update", "run" >>
    /\ irr' = annualized_return
    /\ df' = simulation_data
    /\ days' = 0
    /\ stack' = << "update", "find" >>
    /\ pc' = "scan"
    /\ UNCHANGED << variant, DEFAULT_PARAMS, rng, inputs, params,
                    tourist_rental_days, runVars, annualized_return, outcome,
                    breakeven >>

\* The outputs are built from irr, breakeven_days and df, and returned.
UpdateFinish ==
    /\ pc = "find_done"
    /\ stack = << "update", "find" >>
    /\ stack' = << "update" >>
    /\ pc' = "update_done"
    /\ UNCHANGED << variant, DEFAULT_PARAMS, rng, inputs, params,
                    tourist_rental_days, runVars, annualized_return, outcome,
                    days, breakeven, irr, df >>

\* The outermost call has ended (returned or raised): its locals are dropped.
Ended ==
    \/ pc = "run_done" /\ stack = << "run" >>
    \/ pc = "find_done" /\ stack = << "find" >>
    \/ pc = "update_done"
    \/ pc = "raised"

Return ==
    /\ Ended
    /\ pc' = "idle"
    /\ stack' = << >>
    /\ inputs' = NoInputs
    /\ params' = DefaultParams
    /\ tourist_rental_days' = 0
    /\ year' = 0
    /\ remaining_loan' = 0
    /\ current_property_value' = 0
    /\ annual_principal_payment' = 0
    /\ cash_flows' = << >>
    /\ simulation_data' = << >>
    /\ annualized_return' = 0
    /\ outcome' = "none"
    /\ days' = 0
    /\ breakeven' = None
    /\ irr' = 0
    /\ df' = << >>
    /\ UNCHANGED << variant, DEFAULT_PARAMS, rng >>

Next ==
    \/ SeedRandom
    \/ \E p \in ParamSets, d \in DaySamples : CallRunSimulation(p, d)
    \/ \E p \in ParamSets : CallFindBreakevenDays(p)
    \/ \E in \in InputSets : CallUpdateDashboard(in)
    \/ YearStep
    \/ TerminalStep
    \/ ComputeReturn
    \/ RaiseFromIrr
    \/ FindTrial
    \/ FindNotFound
    \/ FindCompare
    \/ UpdateCallRun
    \/ UpdateCallFind
    \/ UpdateFinish
    \/ Return

Spec == Init /\ [][Next]_vars

\* ================================================================ claims
InFind == \E i \in 1..Len(stack) : stack[i] = "find"

\* The return a trial of the scan gets for d days, and whether it meets the
\* target: run_simulation(p, d) as the scan calls it.
TrialFrame(v, p, d) == RunFrame(v, p, d, RngForTrial(v, 0))

Qualifies(v, p, d) ==
    LET values == TrialFrame(v, p, d).cash_flows
    IN  /\ ~IrrPropagates(v, values)
        /\ MeetsTarget(AnnualizedReturn(v, values), p)

Min(S) == CHOOSE x \in S : \A y \in S : x <= y

\* C1: when a call of find_breakeven_days ends, it has returned the smallest
\* days in 0..365 whose run_simulation return meets the target, or -1 when no
\* days in 0..365 does.
C1_BreakevenIsSmallest ==
    (InFind /\ pc \in {"find_done", "raised"}) =>
        LET Q == { d \in 0..MaxDays : Qualifies(variant, params, d) }
        IN  breakeven = Some(IF Q = {} THEN -1 ELSE Min(Q))

\* C2: every year's recorded loan balance is non-negative, and it is 0 in every
\* year whose index is at least the mortgage term.
C2_LoanBalance ==
    \A i \in 1..Len(simulation_data) :
        /\ FGe(simulation_data[i].LoanBalance, 0)
        /\ simulation_data[i].Year >= params.mortgage_term_years
              => simulation_data[i].LoanBalance = 0

\* C3: once the loop of run_simulation is over, the cash-flow stream has
\* simulation_years + 1 entries and the year table simulation_years records
\* whose Year fields are 1, 2, ..., simulation_years in this order.
C3_StreamAndTableLengths ==
    (pc \in {"run_irr", "run_done"} /\ params.simulation_years >= 1) =>
        /\ Len(cash_flows) = params.simulation_years + 1
        /\ Len(simulation_data) = params.simulation_years
        /\ \A i \in 1..Len(simulation_data) : simulation_data[i].Year = i

C3_Witness ==
    /\ pc = "run_done"
    /\ params.simulation_years >= 2
    /\ Len(simulation_data) = params.simulation_years
    /\ simulation_data[Len(simulation_data)].Year = params.simulation_years

\* C4: the terminal-value step makes the last stream entry the last year's net
\* cash flow plus (final property value - final property value *
\* selling_costs_pct - remaining loan balance), and leaves the year table and
\* every earlier stream entry as they were.
C4_TerminalValue ==
    [][ (pc = "run_loop" /\ pc' = "run_irr" /\ params.simulation_years >= 1) =>
          LET n == Len(cash_flows)
              last == simulation_data[Len(simulation_data)]
              proceeds ==
                  FSub(FSub(last.PropertyValue,
                            FMulQ(last.PropertyValue, params.selling_costs_pct,
                                  RateDen)),
                       last.LoanBalance)
          IN  /\ Len(cash_flows') = n
              /\ cash_flows'[n] = FAdd(last.NetCashFlow, proceeds)
              /\ \A i \in 1..(n - 1) : cash_flows'[i] = cash_flows[i]
              /\ simulation_data' = simulation_data
              /\ last.NetCashFlow = cash_flows[n] ]_vars

C4_Witness ==
    /\ pc = "run_irr"
    /\ params.simulation_years >= 2
    /\ IsFinite(cash_flows[Len(cash_flows)])
    /\ cash_flows[Len(cash_flows)]
          # simulation_data[Len(simulation_data)].NetCashFlow

\* C5: when the internal rate of return is not computable (npf.irr finds no
\* real solution, or raises), run_simulation returns -1.0 and no exception
\* leaves it.
C5_SentinelWhenNotComputable ==
    outcome \in {"nan", "error"} =>
        /\ pc # "raised"
        /\ annualized_return = LossSentinel

\* C6: a trial of the scan whose return computation fails or is not computable
\* does not meet the target: the scan is not aborted by it, and its days value
\* is not returned.
C6_FailedTrialDoesNotQualify ==
    /\ pc = "raised" => ~InFind
    /\ (pc = "find_done" /\ breakeven = Some(days)) => outcome = "value"

\* The deterministic run_simulation's return for (p, d).
DetReturn(p, d) ==
    AnnualizedReturn("dashboard", RunFrame("dashboard", p, d, 0).cash_flows)

\* The occupancies a finished run with d2 days is compared with.
LowerDays(d2) == { d \in DaySamples \cup {d2 - 1} : 0 <= d /\ d <= d2 }

AllFinite(values) == \A i \in 1..Len(values) : IsFinite(values[i])

\* A stream of an investment: a negative first entry, then no negative entry
\* and at least one positive one.
Conventional(values) ==
    /\ AllFinite(values)
    /\ values[1] < 0
    /\ \A i \in 2..Len(values) : values[i] >= 0
    /\ \E i \in 2..Len(values) : values[i] > 0

RECURSIVE RngAt(_)
RngAt(n) == IF n = 0 THEN Seed(SeedValue) ELSE NextRng(RngAt(n - 1))

\* C8: in the stochastic variant every trial of the scan starts from the seeded
\* generator, so the interest rate of year i is the same in every trial: the
\* base rate plus the i-th shock after the seed.
C8_TrialsSeeShocksOfSeed ==
    (variant = "sym" /\ InFind /\ pc \in {"run_loop", "run_irr", "run_done"}) =>
        /\ rng = RngAt(Len(simulation_data))
        /\ \A i \in 1..Len(simulation_data) :
              simulation_data[i].InterestRate =
                  params.base_mortgage_interest_rate
                  + params.interest_rate_volatility * StdNormal(RngAt(i - 1))

C8_Witness ==
    /\ variant = "sym"
    /\ InFind
    /\ pc = "run_done"
    /\ days >= 2
    /\ Len(simulation_data) >= 2
    /\ \E i \in 1..Len(simulation_data) :
          simulation_data[i].InterestRate # params.base_mortgage_interest_rate

\* C9: in the deterministic variant the return rate and the year table of a
\* finished run_simulation are those of its params and tourist_rental_days
\* alone, whatever calls came before and whatever the generator's state: two
\* calls with identical inputs produce identical results.  In particular a
\* trial of the callback's scan with the occupancy of the callback's first call
\* (the same params and the same first-year rental revenue) reproduces irr and
\* df.
C9_DeterministicResults ==
    (variant = "dashboard" /\ pc = "run_done") =>
        /\ \A s \in RngStates :
              LET f == RunFrame("dashboard", params, tourist_rental_days, s)
              IN  /\ annualized_return = AnnualizedReturn("dashboard", f.cash_flows)
                  /\ simulation_data = f.simulation_data
        /\ (stack = << "update", "find", "run" >>
               /\ Len(df) >= 1
               /\ Len(simulation_data) >= 1
               /\ df[1].RentalRevenue = simulation_data[1].RentalRevenue)
              => (irr = annualized_return /\ df = simulation_data)

\* The callback's first call and a later trial of its scan had the same inputs,
\* with other trials in between.
C9_Witness ==
    /\ variant = "dashboard"
    /\ pc = "run_done"
    /\ stack = << "update", "find", "run" >>
    /\ days >= 1
    /\ Len(df) >= 1
    /\ df[1].RentalRevenue = simulation_data[1].RentalRevenue
    /\ irr = annualized_return
    /\ df = simulation_data

\* C10: update_dashboard passes to the engine the default value of every
\* missing (None) input.
C10_DefaultsForMissingInputs ==
    pc = "update_built" =>
        /\ inputs.tourist_days = None => tourist_rental_days = DefaultTouristDays
        /\ inputs.apt_price = None =>
              params.apartment_price = DefaultParams.apartment_price
        /\ inputs.loan_amt = None =>
              params.loan_amount = DefaultParams.loan_amount
        /\ inputs.prop_growth = None =>
              params.avg_property_value_growth
                  = DefaultParams.avg_property_value_growth
        /\ inputs.int_rate = None =>
              params.base_mortgage_interest_rate
                  = DefaultParams.base_mortgage_interest_rate
        /\ inputs.tourist_price = None =>
              params.tourist_rental_price_per_day
                  = DefaultParams.tourist_rental_price_per_day
        /\ inputs.friends_price = None =>
              params.friends_rental_price_per_day
                  = DefaultParams.friends_rental_price_per_day
        /\ inputs.fixed_costs = None =>
              params.annual_fixed_costs = DefaultParams.annual_fixed_costs
        /\ inputs.friends_days = None =>
              params.friends_rental_days_per_year
                  = DefaultParams.friends_rental_days_per_year
        /\ inputs.family_days = None =>
              params.family_rental_days_per_year
                  = DefaultParams.family_rental_days_per_year
        /\ inputs.family_price = None =>
              params.family_rental_price_per_day
                  = DefaultParams.family_rental_price_per_day

\* The loan balance at the start of year i of the run in progress.
StartBalance(i) ==
    IF i = 1 THEN params.loan_amount ELSE simulation_data[i - 1].LoanBalance

\* min(a, b) on float values.
FMin(a, b) == IF FLt(b, a) THEN b ELSE a

\* The balance has reached 0 before year i.
PaidOffBefore(i) ==
    \/ params.loan_amount = 0
    \/ \E j \in 1..(i - 1) : simulation_data[j].LoanBalance = 0

\* C11: in every simulated year, principal paid is the smaller of
\* loan_amount / mortgage_term_years and the balance at the start of the year,
\* interest paid is that start-of-year balance times the year's interest rate,
\* and both are 0 in every year after the balance has reached 0.
C11_PrincipalAndInterest ==
    \A i \in 1..Len(simulation_data) :
        LET row == simulation_data[i]
            annual == FDiv(params.loan_amount, params.mortgage_term_years)
        IN  /\ row.PrincipalPaid = FMin(annual, StartBalance(i))
            /\ row.InterestPaid
                  = FMulQ(StartBalance(i), row.InterestRate, RateDen)
            /\ PaidOffBefore(i) =>
                  row.PrincipalPaid = 0 /\ row.InterestPaid = 0

\* A run whose loan is paid off after two years of payments and interest, and
\* whose third year pays nothing.
C11_Witness ==
    /\ Len(simulation_data) >= 3
    /\ params.loan_amount > 0
    /\ simulation_data[1].PrincipalPaid > 0
    /\ simulation_data[1].InterestPaid # 0
    /\ simulation_data[1].LoanBalance > 0
    /\ simulation_data[2].LoanBalance = 0
    /\ simulation_data[3].PrincipalPaid = 0
    /\ simulation_data[3].InterestPaid = 0

\* C12: no step of run_simulation, find_breakeven_days or update_dashboard
\* changes the module-level default record or, while a call is in progress, the
\* params mapping it was given; the mapping update_dashboard hands to the
\* engine is the defaults overridden by the inputs, in a record of its own.
C12_ParamsLeftUnchanged ==
    [][ /\ DEFAULT_PARAMS' = DEFAULT_PARAMS
        /\ (stack # << >> /\ stack' # << >>) => params' = params
        /\ pc' = "update_built" =>
              params' = ParamsForRun(DEFAULT_PARAMS, inputs') ]_vars

\* A callback with overriding inputs has run both the simulation and the scan
\* on its own mapping.
C12_Witness ==
    /\ pc = "update_done"
    /\ params # DEFAULT_PARAMS
    /\ params.apartment_price # DEFAULT_PARAMS.apartment_price
    /\ Len(df) >= 1
    /\ breakeven # None

====
